---- MODULE Spec2Model ----
(***************************************************************************)
(* Model of src/Spec_test/rs_out/ultimate.rs: the bounded stack            *)
(* (Stack, stack_new, stack_push, stack_pop, stack_is_empty) and the       *)
(* Turing machine (TuringMachine, tm_new, tm_step, tm_run).                *)
(*                                                                         *)
(* Both are value types driven by a sequential caller.  The functions are  *)
(* operators that compute the callee's result from its argument; the       *)
(* actions are the calls a driver can make on the one stack and the one    *)
(* machine it owns, and they record the call in `last`.                    *)
(***************************************************************************)
EXTENDS Integers, Sequences, FiniteSets, TLC

VARIABLES
    stack,      \* the driver's Stack:          [data, top]
    tm,         \* the driver's TuringMachine:  [tape, head, state, steps]
    last,       \* the last call: [op, arg, ret, pre, pre_top]
    pushed,     \* values passed to stack_push so far (push-then-pop driver)
    popped,     \* values returned by stack_pop so far (push-then-pop driver)
    panicked,   \* TRUE once a failed run-time check has aborted the program
    cz          \* the collatz_steps call: [pc, checks, n, current, steps, ret]

vars == <<stack, tm, last, pushed, popped, panicked, cz>>

-----------------------------------------------------------------------------
(* Program constants *)

StackCap == 256
TapeLen  == 100
MainBudget == 100
CollatzLimit == 10000

(* Bounds of the exploration *)

MaxBudget == 11     \* tm_run is called with max_steps in -1..MaxBudget and MainBudget
MaxValue  == 1      \* freely chosen pushed values are 0..MaxValue
MaxFree   == 2      \* the lowest MaxFree slots take freely chosen values
Radius    == 1      \* drawn machines have arbitrary cells within Radius of the head
MaxExtra  == 2      \* the push-then-pop driver pops up to MaxExtra times too often
MaxInput  == 3      \* collatz_steps is called with every n in -MaxInput..MaxInput

-----------------------------------------------------------------------------
(* TapeSymbol, State, TuringMachine *)

TapeSymbol == {"Zero", "One"}
State      == {"A", "B", "Halt"}

\* tm_new starting in state B.
tm_new_StartsInB ==
    [tape  |-> [i \in 0..(TapeLen - 1) |-> "Zero"],
     head  |-> 50,
     state |-> "B",
     steps |-> 0]

\* tm_new with the head at the left end of the tape.
tm_new_HeadAtZero ==
    [tape  |-> [i \in 0..(TapeLen - 1) |-> "Zero"],
     head  |-> 0,
     state |-> "A",
     steps |-> 0]

tm_new ==
    [tape  |-> [i \in 0..(TapeLen - 1) |-> "Zero"],
     head  |-> 50,
     state |-> "A",
     steps |-> 0]

\* tape[head as usize] is bounds-checked: a negative head converts to a huge
\* usize, so every head outside 0..TapeLen-1 fails the check and panics.
InTape(h) == h >= 0 /\ h < TapeLen

\* Transition with the (B, One) arm moving the head left instead of right.
Transition_BOneLeft(st, sym) ==
    CASE st = "A" /\ sym = "Zero" -> [write |-> "One",  move |-> 1,  next |-> "B"]
      [] st = "A" /\ sym = "One"  -> [write |-> "Zero", move |-> -1, next |-> "B"]
      [] st = "B" /\ sym = "Zero" -> [write |-> "One",  move |-> -1, next |-> "A"]
      [] st = "B" /\ sym = "One"  -> [write |-> "One",  move |-> -1, next |-> "Halt"]

\* Transition with the (A, One) arm leaving the head where it is.
Transition_AOneStays(st, sym) ==
    CASE st = "A" /\ sym = "Zero" -> [write |-> "One",  move |-> 1,  next |-> "B"]
      [] st = "A" /\ sym = "One"  -> [write |-> "Zero", move |-> 0,  next |-> "B"]
      [] st = "B" /\ sym = "Zero" -> [write |-> "One",  move |-> -1, next |-> "A"]
      [] st = "B" /\ sym = "One"  -> [write |-> "One",  move |-> 1,  next |-> "Halt"]

\* The match arms of tm_step: (state, symbol) -> (write, head delta, state).
Transition(st, sym) ==
    CASE st = "A" /\ sym = "Zero" -> [write |-> "One",  move |-> 1,  next |-> "B"]
      [] st = "A" /\ sym = "One"  -> [write |-> "Zero", move |-> -1, next |-> "B"]
      [] st = "B" /\ sym = "Zero" -> [write |-> "One",  move |-> -1, next |-> "A"]
      [] st = "B" /\ sym = "One"  -> [write |-> "One",  move |-> 1,  next |-> "Halt"]

\* tm_step that counts the call before it looks at the state.
tm_step_CountsFirst(m) ==
    IF m.state = "Halt" THEN [tm |-> [m EXCEPT !.steps = m.steps + 1], panic |-> FALSE]
    ELSE IF ~InTape(m.head) THEN [tm |-> m, panic |-> TRUE]
    ELSE LET t == Transition(m.state, m.tape[m.head])
         IN  [tm |-> [tape  |-> [m.tape EXCEPT ![m.head] = t.write],
                      head  |-> m.head + t.move,
                      state |-> t.next,
                      steps |-> m.steps + 1],
              panic |-> FALSE]

\* tm_step that returns from the halting arm before it counts the transition.
tm_step_HaltUncounted(m) ==
    IF m.state = "Halt" THEN [tm |-> m, panic |-> FALSE]
    ELSE IF ~InTape(m.head) THEN [tm |-> m, panic |-> TRUE]
    ELSE LET t == Transition(m.state, m.tape[m.head])
         IN  [tm |-> [tape  |-> [m.tape EXCEPT ![m.head] = t.write],
                      head  |-> m.head + t.move,
                      state |-> t.next,
                      steps |-> IF t.next = "Halt" THEN m.steps ELSE m.steps + 1],
              panic |-> FALSE]

\* tm_step(tm): the machine after the call, and whether the call panicked.
tm_step(m) ==
    IF m.state = "Halt" THEN [tm |-> m, panic |-> FALSE]
    ELSE IF ~InTape(m.head) THEN [tm |-> m, panic |-> TRUE]
    ELSE LET t == Transition(m.state, m.tape[m.head])
         IN  [tm |-> [tape  |-> [m.tape EXCEPT ![m.head] = t.write],
                      head  |-> m.head + t.move,
                      state |-> t.next,
                      steps |-> m.steps + 1],
              panic |-> FALSE]

\* The loop of tm_run with the test i <= max_steps.
RECURSIVE run_loop_OffByOne(_, _, _)
run_loop_OffByOne(m, i, max_steps) ==
    IF ~(i <= max_steps) THEN [tm |-> m, panic |-> FALSE]
    ELSE IF m.state = "Halt" THEN [tm |-> m, panic |-> FALSE]
    ELSE LET r == tm_step(m)
         IN  IF r.panic THEN r ELSE run_loop_OffByOne(r.tm, i + 1, max_steps)

\* The while loop of tm_run, entered with loop counter i.
RECURSIVE run_loop(_, _, _)
run_loop(m, i, max_steps) ==
    IF ~(i < max_steps) THEN [tm |-> m, panic |-> FALSE]
    ELSE IF m.state = "Halt" THEN [tm |-> m, panic |-> FALSE]
    ELSE LET r == tm_step(m)
         IN  IF r.panic THEN r ELSE run_loop(r.tm, i + 1, max_steps)

\* tm_run returning the loop counter i instead of tm.steps.
tm_run_ReturnsDelta(m, max_steps) ==
    LET r == run_loop(m, 0, max_steps)
    IN  [tm |-> r.tm, panic |-> r.panic, ret |-> r.tm.steps - m.steps]

\* tm_run(tm, max_steps): the machine after the call, the value returned,
\* and whether a tm_step inside it panicked (then nothing is returned).
tm_run(m, max_steps) ==
    LET r == run_loop(m, 0, max_steps)
    IN  [tm |-> r.tm, panic |-> r.panic, ret |-> r.tm.steps]

-----------------------------------------------------------------------------
(* Stack *)

stack_new == [data |-> [i \in 0..(StackCap - 1) |-> 0], top |-> 0]

\* stack_push that replaces the top value when the stack is full.
stack_push_Overwrites(s, value) ==
    IF s.top < StackCap
    THEN [data |-> [s.data EXCEPT ![s.top] = value], top |-> s.top + 1]
    ELSE [s EXCEPT !.data[StackCap - 1] = value]

\* stack_push that starts again at slot 0 when the stack is full.
stack_push_Wraps(s, value) ==
    IF s.top < StackCap
    THEN [data |-> [s.data EXCEPT ![s.top] = value], top |-> s.top + 1]
    ELSE [data |-> [s.data EXCEPT ![0] = value], top |-> 1]

\* stack_push with the increment of top outside the capacity test.
stack_push_AlwaysIncrements(s, value) ==
    IF s.top < StackCap
    THEN [data |-> [s.data EXCEPT ![s.top] = value], top |-> s.top + 1]
    ELSE [s EXCEPT !.top = s.top + 1]

stack_push(s, value) ==
    IF s.top < StackCap
    THEN [data |-> [s.data EXCEPT ![s.top] = value], top |-> s.top + 1]
    ELSE s

\* stack_pop that returns the top value and leaves it on the stack.
stack_pop_Peeks(s) ==
    IF s.top > 0
    THEN [stack |-> s, ret |-> s.data[s.top - 1]]
    ELSE [stack |-> s, ret |-> 0]

\* stack_pop that returns slot 0 when the stack is empty.
stack_pop_ReturnsSlot(s) ==
    IF s.top > 0
    THEN [stack |-> [s EXCEPT !.top = s.top - 1], ret |-> s.data[s.top - 1]]
    ELSE [stack |-> s, ret |-> s.data[0]]

\* stack_pop(stack): the stack after the call and the value returned.
stack_pop(s) ==
    IF s.top > 0
    THEN [stack |-> [s EXCEPT !.top = s.top - 1], ret |-> s.data[s.top - 1]]
    ELSE [stack |-> s, ret |-> 0]

stack_is_empty(s) == s.top = 0

-----------------------------------------------------------------------------
(* The calls *)

Budgets == (-1..MaxBudget) \cup {MainBudget}

Call(op, arg, ret) ==
    [op |-> op, arg |-> arg, ret |-> ret, pre |-> tm, pre_top |-> stack.top]

InitLast == [op |-> "none", arg |-> 0, ret |-> 0, pre |-> tm_new, pre_top |-> 0]

\* No collatz_steps call made yet, in a build with or without overflow checks.
CzIdle(checks) ==
    [pc |-> "idle", checks |-> checks, n |-> 0, current |-> 0, steps |-> 0, ret |-> 0]

Init ==
    /\ stack = stack_new
    /\ tm = tm_new
    /\ last = InitLast
    /\ pushed = <<>>
    /\ popped = <<>>
    /\ panicked = FALSE
    /\ cz = CzIdle(FALSE)

\* let mut tm = tm_new();
TmNew ==
    /\ ~panicked
    /\ tm' = tm_new
    /\ last' = Call("tm_new", 0, 0)
    /\ UNCHANGED <<cz, stack, pushed, popped, panicked>>

\* tm_step(&mut tm);
TmStep ==
    /\ ~panicked
    /\ LET r == tm_step(tm)
       IN  /\ tm' = r.tm
           /\ panicked' = r.panic
           /\ last' = Call("tm_step", 0, 0)
    /\ UNCHANGED <<cz, stack, pushed, popped>>

\* let steps = tm_run(&mut tm, max_steps);
TmRun ==
    /\ ~panicked
    /\ \E max_steps \in Budgets :
         LET r == tm_run(tm, max_steps)
         IN  /\ tm' = r.tm
             /\ panicked' = r.panic
             /\ last' = Call("tm_run", max_steps, IF r.panic THEN 0 ELSE r.ret)
    /\ UNCHANGED <<cz, stack, pushed, popped>>

\* The driver of one machine made by tm_new().
Next == TmNew \/ TmStep \/ TmRun

Spec == Init /\ [][Next]_vars

\* The driver that keeps calling tm_step (and may call tm_run) on the one
\* machine it made: a tm_step call that can change the machine is made
\* eventually.
NextHalt == TmStep \/ TmRun

SpecHalt == Init /\ [][NextHalt]_vars /\ WF_vars(TmStep)

-----------------------------------------------------------------------------
(* tm_step and tm_run as functions of an arbitrary TuringMachine value *)

Heads     == {0, 1, 50, TapeLen - 2, TapeLen - 1}
StepInits == {0, 3}
Window(h) == {i \in (h - Radius)..(h + Radius) : InTape(i)}

Machines ==
    { [tape  |-> [i \in 0..(TapeLen - 1) |-> IF i \in ones THEN "One" ELSE "Zero"],
       head  |-> h,
       state |-> st,
       steps |-> n] :
      h \in Heads, ones \in UNION {SUBSET Window(h1) : h1 \in Heads},
      st \in State, n \in StepInits }

InitAny ==
    /\ stack = stack_new
    /\ tm \in Machines
    /\ last = InitLast
    /\ pushed = <<>>
    /\ popped = <<>>
    /\ panicked = FALSE
    /\ cz = CzIdle(FALSE)

SpecAny == InitAny /\ [][Next]_vars

-----------------------------------------------------------------------------
(* The driver of one stack made by stack_new() *)

\* A value that names the position it is pushed at.
Tag(n) == MaxValue + 1 + n

\* The values a push may carry when n values lie below it: any of 0..MaxValue
\* for the lowest MaxFree positions, the position's tag above them.
PushValues(n) == IF n < MaxFree THEN 0..MaxValue ELSE {Tag(n)}

\* stack_push(&mut stack, value);
StackPush ==
    /\ ~panicked
    /\ \E value \in PushValues(stack.top) :
         /\ stack' = stack_push(stack, value)
         /\ last' = Call("stack_push", value, 0)
    /\ UNCHANGED <<cz, tm, pushed, popped, panicked>>

\* let v = stack_pop(&mut stack);
StackPop ==
    /\ ~panicked
    /\ LET r == stack_pop(stack)
       IN  /\ stack' = r.stack
           /\ last' = Call("stack_pop", 0, r.ret)
    /\ UNCHANGED <<cz, tm, pushed, popped, panicked>>

NextStack == StackPush \/ StackPop

SpecStack == Init /\ [][NextStack]_vars

\* The driver of main: some pushes, then pops only.
MaxPushes == StackCap + 1

LifoPush ==
    /\ ~panicked
    /\ popped = <<>>
    /\ Len(pushed) < MaxPushes
    /\ \E value \in PushValues(Len(pushed)) :
         /\ stack' = stack_push(stack, value)
         /\ pushed' = Append(pushed, value)
         /\ last' = Call("stack_push", value, 0)
    /\ UNCHANGED <<cz, tm, popped, panicked>>

LifoPop ==
    /\ ~panicked
    /\ Len(popped) < Len(pushed) + MaxExtra
    /\ LET r == stack_pop(stack)
       IN  /\ stack' = r.stack
           /\ popped' = Append(popped, r.ret)
           /\ last' = Call("stack_pop", 0, r.ret)
    /\ UNCHANGED <<cz, tm, pushed, panicked>>

NextLifo == LifoPush \/ LifoPop

SpecLifo == Init /\ [][NextLifo]_vars

-----------------------------------------------------------------------------
(* collatz_steps *)

I32Max == 2147483647
I32Min == -I32Max - 1

\* a + b in wrapping (two's-complement) i32 arithmetic.
WrapAdd(a, b) ==
    IF b > 0 /\ a > I32Max - b THEN I32Min + ((a - (I32Max - b)) - 1)
    ELSE IF b < 0 /\ a < I32Min - b THEN I32Max - (((I32Min - b) - a) - 1)
    ELSE a + b

\* a + b leaves the range of i32.
AddOverflows(a, b) ==
    (b > 0 /\ a > I32Max - b) \/ (b < 0 /\ a < I32Min - b)

\* x * 3 leaves the range of i32.
TripleOverflows(x) == x > I32Max \div 3 \/ x < -(I32Max \div 3)

\* i32 division by 2, truncating toward zero.
Div2(x) == IF x >= 0 THEN x \div 2 ELSE (x + (x % 2)) \div 2

\* current % 2 == 0: the i32 remainder is 0 exactly for even values.
IsEven(x) == x % 2 = 0

\* current * 3 + 1 in i32: the wrapped value, and whether the multiplication
\* or the addition left the range of i32.
TriplePlusOne(x) ==
    LET mul == WrapAdd(WrapAdd(x, x), x)
    IN  [value    |-> WrapAdd(mul, 1),
         overflow |-> TripleOverflows(x) \/ AddOverflows(mul, 1)]

Inputs ==
    (-MaxInput..MaxInput) \cup {27, 113383, 715827883, -715827883, I32Max, I32Min}

\* collatz_steps(n) is entered: steps = 0, current = n.
CollatzCall ==
    /\ ~panicked
    /\ cz.pc \in {"idle", "done"}
    /\ \E n \in Inputs :
         cz' = [cz EXCEPT !.pc = "loop", !.n = n, !.current = n,
                          !.steps = 0, !.ret = 0]
    /\ UNCHANGED <<stack, tm, last, pushed, popped, panicked>>

\* One pass through the body of the while loop.  An overflow of
\* current * 3 + 1 panics in a build with overflow checks and wraps in a
\* build without.
CollatzIter ==
    /\ ~panicked
    /\ cz.pc = "loop"
    /\ cz.current # 1
    /\ LET odd   == TriplePlusOne(cz.current)
           next  == IF IsEven(cz.current) THEN Div2(cz.current) ELSE odd.value
           steps == cz.steps + 1
       IN  IF ~IsEven(cz.current) /\ odd.overflow /\ cz.checks
           THEN /\ cz' = [cz EXCEPT !.pc = "panic"]
                /\ panicked' = TRUE
           ELSE /\ cz' = IF steps > CollatzLimit
                          THEN [cz EXCEPT !.current = next, !.steps = steps,
                                          !.pc = "done", !.ret = -1]
                          ELSE [cz EXCEPT !.current = next, !.steps = steps]
                /\ UNCHANGED panicked
    /\ UNCHANGED <<stack, tm, last, pushed, popped>>

\* The loop test fails (current = 1): return steps.
CollatzReturn ==
    /\ ~panicked
    /\ cz.pc = "loop"
    /\ cz.current = 1
    /\ cz' = [cz EXCEPT !.pc = "done", !.ret = cz.steps]
    /\ UNCHANGED <<stack, tm, last, pushed, popped, panicked>>

InitCollatz ==
    /\ stack = stack_new
    /\ tm = tm_new
    /\ last = InitLast
    /\ pushed = <<>>
    /\ popped = <<>>
    /\ panicked = FALSE
    /\ cz \in {CzIdle(checks) : checks \in BOOLEAN}

NextCollatz == CollatzCall \/ CollatzIter \/ CollatzReturn

SpecCollatz == InitCollatz /\ [][NextCollatz]_vars

-----------------------------------------------------------------------------
(* Properties of the Turing machine *)

Stepped == last.op = "tm_step"
Ran     == last.op = "tm_run"
\* number of transitions the last call applied
Applied == tm.steps - last.pre.steps

\* C1: a tm_step call made in state Halt changes nothing: tape, head, state
\* and steps keep their values, however often it is repeated.
C1_HaltIsTerminal ==
    (Stepped /\ last.pre.state = "Halt") => (tm = last.pre /\ ~panicked)

C1_Witness ==
    Stepped /\ last.pre.state = "Halt" /\ tm.state = "Halt" /\ tm.steps > 0

\* C2: one tm_step call in a non-Halt state applies the table entry of
\* (state, symbol under the head): the symbol is written at the head position
\* held before the move, then the head moves and the state changes.
C2_Entry(st, sym, write, move, next) ==
    (last.pre.state = st /\ last.pre.tape[last.pre.head] = sym)
        => /\ tm.tape[last.pre.head] = write
           /\ tm.head = last.pre.head + move
           /\ tm.state = next

C2_TableApplied ==
    (Stepped /\ last.pre.state # "Halt" /\ InTape(last.pre.head))
        => /\ C2_Entry("A", "Zero", "One",  1,  "B")
           /\ C2_Entry("A", "One",  "Zero", -1, "B")
           /\ C2_Entry("B", "Zero", "One",  -1, "A")
           /\ C2_Entry("B", "One",  "One",  1,  "Halt")
           /\ ~panicked

C2_Witness ==
    /\ Stepped /\ last.pre.state = "B" /\ InTape(last.pre.head)
    /\ last.pre.tape[last.pre.head] = "One"
    /\ tm.state = "Halt" /\ tm.head = last.pre.head + 1

\* C3 as claimed: from tm_new(), tm_run(tm, 100) returns 4 and leaves the
\* machine in state Halt with steps = 4.
C3_HaltsInFour ==
    (Ran /\ last.arg = MainBudget /\ last.pre = tm_new)
        => (last.ret = 4 /\ tm.state = "Halt" /\ tm.steps = 4)

\* C3 as amended: from tm_new(), tm_run(tm, 100) returns 6 and leaves the
\* machine in state Halt with steps = 6.
C3_HaltsInSix ==
    (Ran /\ last.arg = MainBudget /\ last.pre = tm_new)
        => (last.ret = 6 /\ tm.state = "Halt" /\ tm.steps = 6 /\ ~panicked)

C3_Witness ==
    Ran /\ last.arg = MainBudget /\ last.pre = tm_new /\ tm.state = "Halt"

\* C4: a tm_run call on a halted machine, with any budget, returns the steps
\* value the halting run returned and leaves tape, head, state and steps
\* unchanged.
C4_RunIdempotentOnceHalted ==
    (Ran /\ last.pre.state = "Halt")
        => (tm = last.pre /\ last.ret = last.pre.steps /\ ~panicked)

C4_Witness ==
    /\ Ran /\ last.pre.state = "Halt" /\ last.arg = MainBudget
    /\ last.ret = 6 /\ tm.steps = 6

\* C5: tm_run(tm, 0) applies no transition: tape, head, state and steps are
\* unchanged and the value returned is the steps value before the call.
C5_RunZero ==
    (Ran /\ last.arg = 0)
        => (tm = last.pre /\ last.ret = last.pre.steps /\ ~panicked)

C5_Witness ==
    /\ Ran /\ last.arg = 0 /\ last.pre.state # "Halt"
    /\ last.pre.steps > 0 /\ last.ret = last.pre.steps

\* C6 as claimed: when tm_run(tm, max_steps) returns, max_steps >= 0, either
\* the state is Halt or the machine's steps counter equals max_steps; the
\* value returned is the machine's steps counter.
C6_StopsAtCounter ==
    (Ran /\ last.arg >= 0 /\ ~panicked)
        => /\ (tm.state = "Halt" \/ tm.steps = last.arg)
           /\ last.ret = tm.steps

\* C6 as amended: when tm_run(tm, max_steps) returns, max_steps >= 0, either
\* the state is Halt or this call has applied exactly max_steps transitions,
\* and never more than max_steps; the value returned is the machine's
\* cumulative steps counter.
C6_StopsAtBudget ==
    (Ran /\ last.arg >= 0 /\ ~panicked)
        => /\ (tm.state = "Halt" \/ Applied = last.arg)
           /\ Applied >= 0 /\ Applied <= last.arg
           /\ last.ret = tm.steps

C6_Witness ==
    /\ Ran /\ last.arg > 0 /\ last.pre.steps > 0
    /\ tm.state # "Halt" /\ Applied = last.arg /\ tm.steps # last.arg

\* C7: a tm_step call whose head delta would move the head outside
\* [0, TapeLen) applies nothing of the transition: tape, head, state and
\* steps keep their values from before the call.
C7_Leaving ==
    /\ Stepped /\ last.pre.state # "Halt" /\ InTape(last.pre.head)
    /\ ~InTape(last.pre.head
                + Transition(last.pre.state, last.pre.tape[last.pre.head]).move)

C7_OutOfBoundsAtomic == C7_Leaving => tm = last.pre

-----------------------------------------------------------------------------
(* Properties of the stack *)

Min(a, b) == IF a < b THEN a ELSE b

\* C8: on a fresh stack, n <= StackCap pushes of v1..vn followed by pops
\* return vn, vn-1, ..., v1 in that order, and after the n-th pop the stack
\* is empty.
C8_LIFO ==
    Len(pushed) <= StackCap
        => /\ \A i \in 1..Min(Len(popped), Len(pushed)) :
                popped[i] = pushed[Len(pushed) + 1 - i]
           /\ Len(popped) = Len(pushed) => stack_is_empty(stack)

C8_Witness ==
    /\ Len(pushed) = StackCap /\ Len(popped) = StackCap
    /\ pushed[1] # pushed[2]
    /\ popped[StackCap] = pushed[1] /\ popped[1] = pushed[StackCap]
    /\ stack_is_empty(stack)

\* C9 as claimed: StackCap + 1 pushes on a fresh stack followed by StackCap
\* pops return the last StackCap values pushed, in reverse order.
C9_ReturnsLastPushed ==
    (Len(pushed) = StackCap + 1 /\ Len(popped) = StackCap)
        => \A i \in 1..StackCap : popped[i] = pushed[StackCap + 2 - i]

\* C9 as amended: the (StackCap + 1)-th push on a fresh stack is dropped (top
\* and all slots keep the first StackCap values), and the StackCap pops after
\* it return the first StackCap values pushed, in reverse order.
C9_ReturnsFirstPushed ==
    Len(pushed) = StackCap + 1
        => /\ popped = <<>> =>
                /\ stack.top = StackCap
                /\ \A i \in 1..StackCap : stack.data[i - 1] = pushed[i]
           /\ \A i \in 1..Min(Len(popped), StackCap) :
                popped[i] = pushed[StackCap + 1 - i]

C9_Witness ==
    /\ Len(pushed) = StackCap + 1 /\ Len(popped) = StackCap
    /\ popped[1] = pushed[StackCap] /\ popped[1] # pushed[StackCap + 1]
    /\ popped[StackCap] = pushed[1]

\* C10: a stack_pop call made with top = 0 returns 0, leaves top at 0 and
\* every slot unchanged, and stack_is_empty is true after it.
C10_PopOnEmpty ==
    [][(last'.op = "stack_pop" /\ stack.top = 0)
          => (last'.ret = 0 /\ stack' = stack /\ stack_is_empty(stack'))]_vars

C10_Witness ==
    /\ last.op = "stack_pop" /\ last.pre_top = 0 /\ last.ret = 0
    /\ stack.data[0] # 0 /\ stack_is_empty(stack)

\* C11: a stack_push call made with top = StackCap leaves top and all slots
\* unchanged, whatever the value, so later pops return what was pushed before
\* the stack became full.
C11_PushOnFull ==
    [][(last'.op = "stack_push" /\ stack.top = StackCap) => stack' = stack]_vars

C11_Witness ==
    /\ last.op = "stack_push" /\ last.pre_top = StackCap
    /\ stack.top = StackCap /\ last.arg # stack.data[StackCap - 1]

\* C13: 0 <= top <= StackCap always; a push below capacity fills the slot at
\* the old top and moves top one up (top is the first free slot); a pop on a
\* non-empty stack moves top one down and returns the slot at the new top,
\* an index below the old top, never a slot at or above it.
C13_TopInvariant ==
    /\ 0 <= stack.top /\ stack.top <= StackCap
    /\ (last.op = "stack_push" /\ last.pre_top < StackCap)
          => (stack.top = last.pre_top + 1 /\ stack.data[last.pre_top] = last.arg)
    /\ (last.op = "stack_pop" /\ last.pre_top > 0)
          => /\ stack.top = last.pre_top - 1
             /\ last.ret = stack.data[last.pre_top - 1]
             /\ last.pre_top - 1 >= MaxFree => last.ret = Tag(last.pre_top - 1)

\* The list the stack stands for: slots 0..top-1, bottom first.
Contents(s) == [i \in 1..s.top |-> s.data[i - 1]]

\* Reference list capped at StackCap elements.
RefPush(l, v) == IF Len(l) < StackCap THEN Append(l, v) ELSE l
RefPop(l) ==
    IF l = <<>> THEN [list |-> l, ret |-> 0]
    ELSE [list |-> SubSeq(l, 1, Len(l) - 1), ret |-> l[Len(l)]]

\* C16: under any interleaving of pushes and pops the stack behaves like the
\* reference list: with slots 0..top-1 read as the list, a push appends
\* unless the list has StackCap elements, and a pop returns and removes the
\* last element, or returns 0 on the empty list.
C16_RefinesList ==
    [][/\ last'.op = "stack_push"
          => Contents(stack') = RefPush(Contents(stack), last'.arg)
       /\ last'.op = "stack_pop"
          => /\ Contents(stack') = RefPop(Contents(stack)).list
             /\ last'.ret = RefPop(Contents(stack)).ret]_vars

C16_Witness ==
    /\ last.op = "stack_push" /\ last.pre_top = 1 /\ stack.top = 2
    /\ stack.data[StackCap - 1] # 0 /\ stack.data[1] = last.arg
    /\ stack.data[0] # stack.data[1]

C13_Witness ==
    /\ last.op = "stack_pop" /\ last.pre_top > MaxFree /\ last.pre_top < StackCap
    /\ stack.data[last.pre_top] # 0
    /\ last.ret = Tag(last.pre_top - 1)

-----------------------------------------------------------------------------
(* Further properties of the Turing machine *)

HeadMoved == tm.head - last.pre.head

Max(a, b) == IF a > b THEN a ELSE b

\* Number of transitions from machine m to state Halt, counted up to fuel.
RECURSIVE Remaining(_, _)
Remaining(m, fuel) ==
    IF m.state = "Halt" \/ fuel = 0 THEN 0
    ELSE 1 + Remaining(tm_step(m).tm, fuel - 1)

\* C12: in every state reached from tm_new() by tm_step and tm_run calls,
\* wherever tm_step reads or writes tape[head] (state not Halt) the head is
\* inside 0..TapeLen-1, so no index check fails.
C12_HeadInTape ==
    /\ ~panicked
    /\ tm.state # "Halt" => InTape(tm.head)

C12_Witness ==
    Stepped /\ tm.state = "A" /\ tm.head = 48 /\ tm.tape[49] = "One"

\* C14: steps never decreases over tm_step and tm_run calls; a tm_step call
\* in a non-Halt state increases it by exactly 1 and a tm_step call in state
\* Halt leaves it unchanged.
C14_StepsCountsTransitions ==
    /\ (Stepped /\ last.pre.state # "Halt") => Applied = 1
    /\ (Stepped /\ last.pre.state = "Halt") => Applied = 0
    /\ Ran => Applied >= 0
    /\ ~panicked

C14_Witness ==
    /\ Stepped /\ last.pre.state = "B" /\ tm.state = "Halt"
    /\ last.pre.steps = 5 /\ tm.steps = 6

\* C15: one tm_run(tm, k) call applies exactly min(k, r) transitions, r the
\* number of transitions left before Halt, so steps grows by at most k
\* whatever its value before the call; for k <= 0 the machine is unchanged.
C15_BudgetPerCall ==
    Ran => /\ Applied = Min(Max(last.arg, 0), Remaining(last.pre, MainBudget))
           /\ Applied <= Max(last.arg, 0)
           /\ last.arg <= 0 => tm = last.pre
           /\ ~panicked

C15_Witness ==
    /\ Ran /\ last.pre.steps = 2 /\ last.arg = 3
    /\ Applied = 3 /\ tm.steps = 5 /\ tm.state # "Halt"

\* C18: from tm_new(), repeated tm_step calls reach state Halt after fewer
\* than MainBudget transitions, and a tm_run(tm, MainBudget) call returns
\* with the machine halted and the budget not used up.
C18_HaltsWithinBudget ==
    /\ <>(tm.state = "Halt" /\ tm.steps < MainBudget)
    /\ [](Ran /\ last.arg = MainBudget
            => tm.state = "Halt" /\ Applied < MainBudget)

C18_Witness ==
    /\ Stepped /\ last.pre.state # "Halt" /\ tm.state = "Halt"
    /\ tm.steps = 6 /\ tm.steps < MainBudget

\* C17: one tm_step call in a non-Halt state changes at most the tape cell
\* that was under the head before the call, and moves the head by exactly
\* +1 or -1.
C17_StepFrame ==
    (Stepped /\ last.pre.state # "Halt" /\ InTape(last.pre.head))
        => /\ \A i \in 0..(TapeLen - 1) :
                i # last.pre.head => tm.tape[i] = last.pre.tape[i]
           /\ HeadMoved \in {-1, 1}
           /\ ~panicked

C17_Witness ==
    /\ Stepped /\ last.pre.state = "A" /\ InTape(last.pre.head)
    /\ last.pre.tape[last.pre.head] = "One" /\ tm.tape[last.pre.head] = "Zero"
    /\ HeadMoved = -1 /\ last.pre.head = TapeLen - 1

-----------------------------------------------------------------------------
(* Properties of collatz_steps *)

\* C19: collatz_steps(n) returns for every n after at most CollatzLimit + 1
\* passes through the loop: it returns s when 1 is first reached after
\* s <= CollatzLimit steps (0 for n = 1), and -1 in every other case.
C19_CollatzTotal ==
    /\ cz.pc # "panic"
    /\ cz.steps <= CollatzLimit + 1
    /\ cz.pc = "done"
         => \/ cz.current = 1 /\ cz.steps <= CollatzLimit /\ cz.ret = cz.steps
            \/ cz.steps = CollatzLimit + 1 /\ cz.ret = -1
    /\ (cz.pc = "done" /\ cz.n = 1) => cz.ret = 0

\* In a build without overflow checks every call returns as stated above.
Collatz_TotalWhenWrapping == ~cz.checks => C19_CollatzTotal

\* main's call: collatz(27) takes 111 steps.
Collatz_Main == (cz.pc = "done" /\ cz.n = 27) => cz.ret = 111

====
